---- MODULE Spec2Model ----
(***************************************************************************)
(* Model of learnEnglish.py: CSV rows -> note_exists -> Gemini query with  *)
(* retry/backoff -> find_json_in_text -> add_anki_note.                    *)
(*                                                                         *)
(* Text is a sequence of lexical units.  A unit is either one character    *)
(* that some algorithm of the program looks at (brace, bracket, quote,     *)
(* colon, comma, blank, digit) or an indivisible run of letters such as    *)
(* "meaning"; no algorithm of the program looks inside a run of letters.   *)
(***************************************************************************)
EXTENDS Integers, Sequences, FiniteSets, TLC

VARIABLES
    pc,          \* position of the program
    rows,        \* the rows csv.reader yields
    dry_run,     \* args.dry_run
    row_number,  \* process_csv_file: row_number
    word,        \* process_csv_file: word
    retries,     \* query_gemini_for_word: retries
    backoff,     \* query_gemini_for_word: backoff
    attempt,     \* query_gemini_for_word: attempt
    last_exc,    \* query_gemini_for_word: last_exc
    excs,        \* history: the failure of every attempt of the current call
    parsed,      \* query_gemini_for_word: parsed
    gemini,      \* the record query_gemini_for_word returned
    fields,      \* process_csv_file: fields
    result,      \* process_csv_file: result (return value of add_anki_note)
    last_resp,   \* the response to the requests.post of the latest step
    raised,      \* the exception in flight out of a function
    log,         \* history: every external call and every sleep, in order
    outcome,     \* history: what became of each row
    text,        \* find_json_in_text: the argument
    ext,         \* find_json_in_text: what it returned or that it raised
    record,      \* the record handed to json.dumps
    store        \* the words that have a note in the Anki collection

vars == <<pc, rows, dry_run, row_number, word, retries, backoff, attempt,
          last_exc, excs, parsed, gemini, fields, result, last_resp, raised,
          log, outcome, text, ext, record, store>>

----------------------------------------------------------------------------
(* Lexical units *)

LB == "{"
RB == "}"
LSQ == "["
RSQ == "]"
QUOTE == "\""
COLON == ":"
COMMA == ","
SP == " "
DIGIT == "1"
NULLWORD == "null"
BACKSLASH == "\\"

At(s, i) == IF i >= 1 /\ i <= Len(s) THEN s[i] ELSE "EOF"

(* str.strip(): drop the blanks at both ends *)
RECURSIVE LStrip(_)
LStrip(s) == IF s # <<>> /\ Head(s) = SP THEN LStrip(Tail(s)) ELSE s

RECURSIVE RStrip(_)
RStrip(s) ==
    IF s # <<>> /\ s[Len(s)] = SP THEN RStrip(SubSeq(s, 1, Len(s) - 1)) ELSE s

Strip(s) == RStrip(LStrip(s))

----------------------------------------------------------------------------
(* JSON values, as json.loads builds them.  Every value has the same four  *)
(* fields so that any two values can be compared.                          *)

JStr(t) == [kind |-> "str", txt |-> t, keys |-> <<>>, vals |-> <<>>]
JNum(t) == [kind |-> "num", txt |-> t, keys |-> <<>>, vals |-> <<>>]
JNull == [kind |-> "null", txt |-> <<>>, keys |-> <<>>, vals |-> <<>>]
JList(vs) == [kind |-> "list", txt |-> <<>>, keys |-> <<>>, vals |-> vs]
JObj(ks, vs) == [kind |-> "obj", txt |-> <<>>, keys |-> ks, vals |-> vs]

KeyIndex(ks, k) ==
    IF \E n \in 1..Len(ks) : ks[n] = k
    THEN CHOOSE n \in 1..Len(ks) : ks[n] = k
    ELSE 0

(* dict[k] = v: a repeated key keeps its place and takes the last value *)
DictPut(d, k, v) ==
    LET n == KeyIndex(d.keys, k) IN
    IF n = 0 THEN JObj(Append(d.keys, k), Append(d.vals, v))
    ELSE JObj(d.keys, [d.vals EXCEPT ![n] = v])

HasKey(d, k) == KeyIndex(d.keys, k) # 0

DictGet(d, k) == d.vals[KeyIndex(d.keys, k)]

----------------------------------------------------------------------------
(* json.loads *)

ParseFail == [ok |-> FALSE, val |-> JNull, pos |-> 0]
ParseOk(v, p) == [ok |-> TRUE, val |-> v, pos |-> p]

RECURSIVE SkipWs(_, _)
SkipWs(s, i) == IF At(s, i) = SP THEN SkipWs(s, i + 1) ELSE i

(* the body of a string literal from i on: up to the closing quote, a      *)
(* backslash taking the quote or backslash after it literally; the other   *)
(* escapes need letters and are outside the alphabet                       *)
RECURSIVE StringBody(_, _, _)
StringBody(s, i, acc) ==
    IF i > Len(s) THEN [ok |-> FALSE, txt |-> <<>>, pos |-> 0]
    ELSE IF s[i] = QUOTE THEN [ok |-> TRUE, txt |-> acc, pos |-> i + 1]
    ELSE IF s[i] = BACKSLASH THEN
        IF At(s, i + 1) = QUOTE \/ At(s, i + 1) = BACKSLASH
        THEN StringBody(s, i + 2, Append(acc, s[i + 1]))
        ELSE [ok |-> FALSE, txt |-> <<>>, pos |-> 0]
    ELSE StringBody(s, i + 1, Append(acc, s[i]))

RECURSIVE NumEnd(_, _)
NumEnd(s, i) == IF At(s, i) = DIGIT THEN NumEnd(s, i + 1) ELSE i

(* the text of a string literal whose opening quote is at i - 1 *)
scanstring(s, i) == StringBody(s, i, <<>>)

RECURSIVE scan_once(_, _)
RECURSIVE JSONObject(_, _, _)
RECURSIVE JSONArray(_, _, _)

(* the members of an object, from the opening quote of a key at i *)
JSONObject(s, i, d) ==
    IF At(s, i) # QUOTE THEN ParseFail
    ELSE
    LET k == scanstring(s, i + 1) IN
    IF ~k.ok THEN ParseFail
    ELSE
    LET c == SkipWs(s, k.pos) IN
    IF At(s, c) # COLON THEN ParseFail
    ELSE
    LET v == scan_once(s, SkipWs(s, c + 1)) IN
    IF ~v.ok THEN ParseFail
    ELSE
    LET e == SkipWs(s, v.pos)
        d2 == DictPut(d, k.txt, v.val)
    IN  IF At(s, e) = RB THEN ParseOk(d2, e + 1)
        ELSE IF At(s, e) = COMMA THEN JSONObject(s, SkipWs(s, e + 1), d2)
        ELSE ParseFail

(* the elements of a list, from the first unit of an element at i *)
JSONArray(s, i, vs) ==
    LET v == scan_once(s, i) IN
    IF ~v.ok THEN ParseFail
    ELSE
    LET e == SkipWs(s, v.pos)
        vs2 == Append(vs, v.val)
    IN  IF At(s, e) = RSQ THEN ParseOk(JList(vs2), e + 1)
        ELSE IF At(s, e) = COMMA THEN JSONArray(s, SkipWs(s, e + 1), vs2)
        ELSE ParseFail

scan_once(s, i) ==
    LET c == At(s, i) IN
    IF c = QUOTE THEN
        LET t == scanstring(s, i + 1) IN
        IF t.ok THEN ParseOk(JStr(t.txt), t.pos) ELSE ParseFail
    ELSE IF c = LB THEN
        LET j == SkipWs(s, i + 1) IN
        IF At(s, j) = RB THEN ParseOk(JObj(<<>>, <<>>), j + 1)
        ELSE JSONObject(s, j, JObj(<<>>, <<>>))
    ELSE IF c = LSQ THEN
        LET j == SkipWs(s, i + 1) IN
        IF At(s, j) = RSQ THEN ParseOk(JList(<<>>), j + 1)
        ELSE JSONArray(s, j, <<>>)
    ELSE IF c = NULLWORD THEN ParseOk(JNull, i + 1)
    ELSE IF c = DIGIT THEN
        LET e == NumEnd(s, i) IN ParseOk(JNum(SubSeq(s, i, e - 1)), e)
    ELSE ParseFail

(* json.loads(s): one value, blanks around it, nothing else *)
loads(s) ==
    LET v == scan_once(s, SkipWs(s, 1)) IN
    IF v.ok /\ SkipWs(s, v.pos) = Len(s) + 1 THEN v ELSE ParseFail

----------------------------------------------------------------------------
(* json.dumps(v, ensure_ascii=False) *)

(* a text between quotes, its quotes and backslashes escaped *)
RECURSIVE Escape(_)
Escape(t) ==
    IF t = <<>> THEN <<>>
    ELSE (IF Head(t) = QUOTE \/ Head(t) = BACKSLASH
          THEN <<BACKSLASH, Head(t)>> ELSE <<Head(t)>>)
         \o Escape(Tail(t))

Quoted(t) == <<QUOTE>> \o Escape(t) \o <<QUOTE>>

RECURSIVE dumps(_)
RECURSIVE DumpItems(_, _)
RECURSIVE DumpMembers(_, _, _)

DumpItems(vs, n) ==
    IF n > Len(vs) THEN <<>>
    ELSE (IF n > 1 THEN <<COMMA, SP>> ELSE <<>>)
         \o dumps(vs[n]) \o DumpItems(vs, n + 1)

DumpMembers(ks, vs, n) ==
    IF n > Len(ks) THEN <<>>
    ELSE (IF n > 1 THEN <<COMMA, SP>> ELSE <<>>)
         \o Quoted(ks[n]) \o <<COLON, SP>>
         \o dumps(vs[n]) \o DumpMembers(ks, vs, n + 1)

dumps(v) ==
    IF v.kind = "str" THEN Quoted(v.txt)
    ELSE IF v.kind = "num" THEN v.txt
    ELSE IF v.kind = "null" THEN <<NULLWORD>>
    ELSE IF v.kind = "list" THEN <<LSQ>> \o DumpItems(v.vals, 1) \o <<RSQ>>
    ELSE <<LB>> \o DumpMembers(v.keys, v.vals, 1) \o <<RB>>

----------------------------------------------------------------------------
(* find_json_in_text *)

ExtFail == [ok |-> FALSE, val |-> JNull, tier |-> 0]
ExtOk(v, t) == [ok |-> TRUE, val |-> v, tier |-> t]

(* lines 68-86 with start kept after a candidate failed to load *)
RECURSIVE Scanner_noreset(_, _, _, _)
Scanner_noreset(t, i, start, depth) ==
    IF i > Len(t) THEN ExtFail
    ELSE IF t[i] = LB THEN
        Scanner_noreset(t, i + 1, IF start = 0 THEN i ELSE start, depth + 1)
    ELSE IF t[i] = RB THEN
        LET d2 == IF depth > 0 THEN depth - 1 ELSE depth IN
        IF d2 = 0 /\ start # 0 THEN
            LET r == loads(SubSeq(t, start, i)) IN
            IF r.ok THEN ExtOk(r.val, 2) ELSE Scanner_noreset(t, i + 1, start, 0)
        ELSE Scanner_noreset(t, i + 1, start, d2)
    ELSE Scanner_noreset(t, i + 1, start, depth)

(* lines 68-86: the brace-depth scanner; start = 0 stands for None *)
RECURSIVE Scanner(_, _, _, _)
Scanner(t, i, start, depth) ==
    IF i > Len(t) THEN ExtFail
    ELSE IF t[i] = LB THEN
        Scanner(t, i + 1, IF start = 0 THEN i ELSE start, depth + 1)
    ELSE IF t[i] = RB THEN
        LET d2 == IF depth > 0 THEN depth - 1 ELSE depth IN
        IF d2 = 0 /\ start # 0 THEN
            LET r == loads(SubSeq(t, start, i)) IN
            IF r.ok THEN ExtOk(r.val, 2) ELSE Scanner(t, i + 1, 0, 0)
        ELSE Scanner(t, i + 1, start, d2)
    ELSE Scanner(t, i + 1, start, depth)

RECURSIVE NextBrace(_, _)
NextBrace(t, i) ==
    IF i > Len(t) THEN 0
    ELSE IF t[i] = LB \/ t[i] = RB THEN i
    ELSE NextBrace(t, i + 1)

(* lines 89-94: re.findall(r"\{[^{}]+\}") and the first match that loads *)
RECURSIVE Fallback(_, _)
Fallback(t, i) ==
    IF i > Len(t) THEN ExtFail
    ELSE IF t[i] = LB THEN
        LET j == NextBrace(t, i + 1) IN
        IF j > i + 1 /\ t[j] = RB THEN
            LET r == loads(SubSeq(t, i, j)) IN
            IF r.ok THEN ExtOk(r.val, 3) ELSE Fallback(t, j + 1)
        ELSE Fallback(t, i + 1)
    ELSE Fallback(t, i + 1)

(* lines 68-96 alone, without the load of the whole text at 62-65 *)
find_json_in_text_scanonly(t0) ==
    LET sc == Scanner(Strip(t0), 1, 0, 0) IN
    IF sc.ok THEN sc ELSE Fallback(Strip(t0), 1)

find_json_in_text(t0) ==
    LET t == Strip(t0)
        whole == loads(t)
    IN  IF whole.ok THEN ExtOk(whole.val, 1)
        ELSE LET sc == Scanner(t, 1, 0, 0) IN
             IF sc.ok THEN sc
             ELSE Fallback(t, 1)

----------------------------------------------------------------------------
(* Bounds *)

MaxRows == 2
MaxChunks == 4
MaxIds == 2
MaxRetries == 3
MaxBackoff == 2
MaxPad == 1

(* Program constants *)

DEFAULT_RETRIES == 2
DEFAULT_BACKOFF == 1
POLITE_PAUSE == 1

KEYS == {"meaning", "translation", "meaning_translation", "example_phrase",
         "phrase_translation"}

----------------------------------------------------------------------------
(* query_gemini_for_word, lines 115-141 *)

EmptyRecord == [k \in KEYS |-> <<>>]

(* lines 128-132 with parsed.get(k) for parsed.get(k, ""): None is dumped *)
NormalizeValue_nodefault(p, k) ==
    LET v == IF HasKey(p, <<k>>) THEN DictGet(p, <<k>>) ELSE JNull IN
    IF v.kind = "str" THEN Strip(v.txt) ELSE dumps(v)

(* lines 126-133: parsed.get(k, ""), strip a text, dump anything else *)
NormalizeValue(p, k) ==
    LET v == IF HasKey(p, <<k>>) THEN DictGet(p, <<k>>) ELSE JStr(<<>>) IN
    IF v.kind = "str" THEN Strip(v.txt) ELSE dumps(v)

Normalize(p) == [k \in KEYS |-> NormalizeValue(p, k)]

(* lines 124-133 with a value that is no dict taken as an empty dict *)
OutcomeOfExtract_anyvalue(e) ==
    IF ~e.ok THEN
        [ok |-> FALSE, exc |-> "ValueError", parsed |-> JNull,
         rec |-> EmptyRecord]
    ELSE [ok |-> TRUE, exc |-> "None", parsed |-> e.val,
          rec |-> IF e.val.kind = "obj" THEN Normalize(e.val)
                  ELSE EmptyRecord]

(* lines 124-133: what an attempt does with what find_json_in_text gave *)
OutcomeOfExtract(e) ==
    IF ~e.ok THEN
        [ok |-> FALSE, exc |-> "ValueError", parsed |-> JNull,
         rec |-> EmptyRecord]
    ELSE IF e.val.kind # "obj" THEN
        [ok |-> FALSE, exc |-> "AttributeError:get", parsed |-> e.val,
         rec |-> EmptyRecord]
    ELSE [ok |-> TRUE, exc |-> "None", parsed |-> e.val,
          rec |-> Normalize(e.val)]

(* lines 119-135: what one attempt does with the backend's response *)
AttemptOutcome(resp) ==
    IF resp.kind = "error" THEN
        [ok |-> FALSE, exc |-> "APIError", parsed |-> JNull,
         rec |-> EmptyRecord]
    ELSE IF resp.kind = "no_text" THEN
        [ok |-> FALSE, exc |-> "AttributeError:strip", parsed |-> JNull,
         rec |-> EmptyRecord]
    ELSE OutcomeOfExtract(find_json_in_text(resp.text))

(* line 117 with < for <= *)
LoopCond_short(a, r) == a < r

(* line 117 *)
LoopCond(a, r) == a <= r

(* line 136 with a constant wait *)
Wait_const(b, a) == b

(* line 136 *)
Wait(b, a) == b * a

(* line 135 *)
NextLastExc(old, e) == e

NoExc == [type |-> "None", attempts |-> 0, last |-> "None"]

----------------------------------------------------------------------------
(* The AnkiConnect responses requests.post can produce *)

AnkiResp(kind, error, rkind, ids) ==
    [kind |-> kind, error |-> error, rkind |-> rkind, ids |-> ids]

NoResp == AnkiResp("none", "null", "absent", <<>>)

IdLists == {[i \in 1..n |-> i] : n \in 0..MaxIds}

FailedResponses ==
    {AnkiResp("transport", "null", "absent", <<>>),
     AnkiResp("http_error", "null", "absent", <<>>),
     AnkiResp("undecodable", "null", "absent", <<>>),
     AnkiResp("json", "err", "null", <<>>),
     AnkiResp("json", "err", "absent", <<>>)}

FindResponses ==
    FailedResponses
    \cup {AnkiResp("json", "null", "null", <<>>)}
    \cup {AnkiResp("json", "null", "list", l) : l \in IdLists}

AddResponses ==
    FailedResponses
    \cup {AnkiResp("json", "null", "null", <<>>)}
    \cup {AnkiResp("json", "null", "id", <<i>>) : i \in 1..MaxIds}

(* the answers of a collection that holds notes for the words of S: no     *)
(* error, and a list of ids that is empty iff w has no note                *)
FaithfulFind(w, S) ==
    {AnkiResp("json", "null", "list", l) :
        l \in {m \in IdLists : (Len(m) > 0) <=> (w \in S)}}

(* line 238 with one id too few counted as none *)
note_exists_offbyone(resp) ==
    IF resp.kind # "json" THEN FALSE
    ELSE IF resp.rkind = "list" THEN Len(resp.ids) > 1
    ELSE FALSE

(* lines 233-240 with the answer ignored *)
note_exists_never(resp) == FALSE

(* lines 238-240 with return True in the except clause *)
note_exists_errtrue(resp) ==
    IF resp.kind # "json" THEN TRUE
    ELSE IF resp.rkind = "list" THEN Len(resp.ids) > 0
    ELSE FALSE

(* lines 233-240: every exception inside the try makes it False *)
note_exists(resp) ==
    IF resp.kind # "json" THEN FALSE
    ELSE IF resp.rkind = "absent" THEN Len(<<>>) > 0
    ELSE IF resp.rkind = "list" THEN Len(resp.ids) > 0
    ELSE FALSE

(* lines 153-158 without the test of the error field at 156-157 *)
add_anki_note_noerrcheck(resp) ==
    IF resp.kind # "json" THEN
        [ok |-> FALSE, exc |-> resp.kind, result |-> <<>>]
    ELSE [ok |-> TRUE, exc |-> "None",
          result |-> IF resp.rkind = "id" THEN resp.ids ELSE <<>>]

(* lines 153-158; result <<>> stands for None *)
add_anki_note(resp) ==
    IF resp.kind # "json" THEN
        [ok |-> FALSE, exc |-> resp.kind, result |-> <<>>]
    ELSE IF resp.error # "null" THEN
        [ok |-> FALSE, exc |-> "RuntimeError", result |-> <<>>]
    ELSE [ok |-> TRUE, exc |-> "None",
          result |-> IF resp.rkind = "id" THEN resp.ids ELSE <<>>]

----------------------------------------------------------------------------
(* process_csv_file, lines 161-199 *)

(* line 169 without .strip() *)
RowWord_raw(row) == row[1]

(* line 169 *)
RowWord(row) == Strip(row[1])

(* lines 174-176 without the continue *)
AfterExists_never(ex) == "gen"

(* lines 174-176 with the pause of line 199 taken before the continue *)
AfterExists_pause(ex) == IF ex THEN "sleep" ELSE "gen"

(* lines 174-176 *)
AfterExists(ex) == IF ex THEN "loop" ELSE "gen"

(* line 192 with the dry run flag ignored *)
ShouldAdd_always(dry) == TRUE

(* line 192 *)
ShouldAdd(dry) == ~dry

(* lines 197-198 with the failure sent back into the generation *)
OnFailure_regen == "gen"

(* lines 197-198 with the failure followed by an insertion *)
OnFailure_retry == "add"

(* lines 197-198 with the failure ending the loop *)
OnFailure_abort == "done"

(* lines 197-199: the except clause falls through to the pause *)
OnFailure == "sleep"

(* lines 181-188 *)
BuildNoteFields(w, g) ==
    ("Word" :> w) @@ ("Meaning" :> g["meaning"])
    @@ ("translation" :> g["translation"])
    @@ ("Meaning Translation" :> g["meaning_translation"])
    @@ ("example phrase" :> g["example_phrase"])
    @@ ("phrase translation" :> g["phrase_translation"])

NoFields == BuildNoteFields(<<>>, EmptyRecord)

Entry(op, row, w, arg) == [op |-> op, row |-> row, word |-> w, arg |-> arg]

----------------------------------------------------------------------------
(* Inputs *)

RowValues ==
    { <<>>,
      << <<>> >>,
      << <<SP, SP>> >>,
      << <<"resilience">> >>,
      << <<SP, "buoyant", SP>>, <<"note">> >> }

RECURSIVE SeqsUpTo(_, _)
SeqsUpTo(S, n) ==
    IF n = 0 THEN {<<>>}
    ELSE LET prev == SeqsUpTo(S, n - 1) IN
         prev \cup {Append(q, x) : q \in prev, x \in S}

RowLists == SeqsUpTo(RowValues, MaxRows)

Words == {<<"resilience">>, <<"buoyant">>}

Member(k, v) == <<QUOTE, k, QUOTE, COLON, SP>> \o v
Text(t) == <<QUOTE>> \o t \o <<QUOTE>>
Sep == <<COMMA, SP>>

R_full ==
    <<LB>> \o Member("meaning", Text(<<"hi">>)) \o Sep
    \o Member("translation", Text(<<"oi">>)) \o Sep
    \o Member("meaning_translation", Text(<<"oi", SP, "oi">>)) \o Sep
    \o Member("example_phrase", Text(<<"hi", SP, "hi">>)) \o Sep
    \o Member("phrase_translation", Text(<<"oi">>)) \o <<RB>>

R_partial ==
    <<LB>> \o Member("meaning", Text(<<SP, "hi", SP>>)) \o Sep
    \o Member("translation", <<DIGIT>>) \o Sep
    \o Member("meaning_translation", <<LSQ, DIGIT, COMMA, NULLWORD, RSQ>>)
    \o Sep \o Member("example_phrase", <<NULLWORD>>) \o <<RB>>

R_wrapped ==
    <<"hi", SP, LB>> \o Member("meaning", Text(<<"hi">>)) \o <<RB, SP, "hi">>

R_list == <<LSQ, DIGIT, RSQ>>

R_null == <<NULLWORD>>

R_garbage == <<"hi", SP, LB, "hi">>

SampleTexts == {R_full, R_partial, R_wrapped, R_list, R_null, R_garbage}

GeminiResp(kind, t) == [kind |-> kind, text |-> t]

GeminiResponses ==
    {GeminiResp("error", <<>>), GeminiResp("no_text", <<>>)}
    \cup {GeminiResp("text", t) : t \in SampleTexts}

Chunks ==
    { <<LB>>, <<RB>>, <<LSQ>>, <<RSQ>>, <<DIGIT>>, <<SP>>, <<"hi">>,
      <<NULLWORD>>,
      <<LB, DIGIT, RB>>,
      <<QUOTE, "meaning", QUOTE, COLON, QUOTE, "hi", QUOTE>>,
      <<QUOTE, "meaning", QUOTE, COLON, QUOTE, RB, QUOTE>> }

RECURSIVE TextsUpTo(_)
TextsUpTo(n) ==
    IF n = 0 THEN {<<>>}
    ELSE LET prev == TextsUpTo(n - 1) IN
         prev \cup {t \o c : t \in prev, c \in Chunks}

Texts == TextsUpTo(MaxChunks)

(* structured records with the five required text fields *)
KeySeq == << <<"meaning">>, <<"translation">>, <<"meaning_translation">>,
             <<"example_phrase">>, <<"phrase_translation">> >>

SampleValues ==
    { <<>>, <<"hi">>, <<SP, "hi", SP>>, <<RB>>, <<LB, "hi">>,
      <<QUOTE, BACKSLASH>> }

Records ==
    {JObj(KeySeq, [n \in 1..5 |-> JStr(f[n])]) : f \in [1..5 -> SampleValues]}

NoRecord == JObj(<<>>, <<>>)

Blanks(n) == [i \in 1..n |-> SP]

----------------------------------------------------------------------------
(* Initial states *)

InitLocals ==
    /\ attempt = 0
    /\ last_exc = "None"
    /\ excs = <<>>
    /\ parsed = JNull
    /\ gemini = EmptyRecord
    /\ fields = NoFields
    /\ result = <<>>
    /\ last_resp = NoResp
    /\ raised = NoExc
    /\ log = <<>>

(* main(): process_csv_file on the rows of the file *)
Init ==
    /\ pc = "loop"
    /\ rows \in RowLists
    /\ dry_run \in BOOLEAN
    /\ row_number = 0
    /\ word = <<>>
    /\ retries = DEFAULT_RETRIES
    /\ backoff = DEFAULT_BACKOFF
    /\ outcome = [r \in 1..Len(rows) |-> "none"]
    /\ text = <<>>
    /\ ext = ExtFail
    /\ record = NoRecord
    /\ store = {}
    /\ InitLocals

(* a call of query_gemini_for_word with any retries and backoff *)
InitQuery ==
    /\ pc = "gen"
    /\ rows = <<>>
    /\ dry_run = FALSE
    /\ row_number = 0
    /\ word \in Words
    /\ retries \in 0..MaxRetries
    /\ backoff \in 0..MaxBackoff
    /\ outcome = <<>>
    /\ text = <<>>
    /\ ext = ExtFail
    /\ record = NoRecord
    /\ store = {}
    /\ InitLocals

(* a call of find_json_in_text on any text *)
InitExtract ==
    /\ pc = "extract"
    /\ rows = <<>>
    /\ dry_run = FALSE
    /\ row_number = 0
    /\ word = <<>>
    /\ retries = DEFAULT_RETRIES
    /\ backoff = DEFAULT_BACKOFF
    /\ outcome = <<>>
    /\ text \in Texts
    /\ ext = ExtFail
    /\ record = NoRecord
    /\ store = {}
    /\ InitLocals

(* process_csv_file without --dry-run on a collection holding any notes *)
InitStore ==
    /\ pc = "loop"
    /\ rows \in RowLists
    /\ dry_run = FALSE
    /\ row_number = 0
    /\ word = <<>>
    /\ retries = DEFAULT_RETRIES
    /\ backoff = DEFAULT_BACKOFF
    /\ outcome = [r \in 1..Len(rows) |-> "none"]
    /\ text = <<>>
    /\ ext = ExtFail
    /\ record = NoRecord
    /\ store \in SUBSET Words
    /\ InitLocals

(* a record is serialized and the text handed to find_json_in_text *)
InitRound ==
    /\ pc = "serialize"
    /\ rows = <<>>
    /\ dry_run = FALSE
    /\ row_number = 0
    /\ word = <<>>
    /\ retries = DEFAULT_RETRIES
    /\ backoff = DEFAULT_BACKOFF
    /\ outcome = <<>>
    /\ text = <<>>
    /\ ext = ExtFail
    /\ record \in Records
    /\ store = {}
    /\ InitLocals

----------------------------------------------------------------------------
(* Actions *)

(* lines 165-171: next row; empty rows and blank words are passed over *)
ReadRow ==
    /\ pc = "loop"
    /\ row_number < Len(rows)
    /\ row_number' = row_number + 1
    /\ LET row == rows[row_number + 1] IN
       IF row = <<>> THEN
            /\ word' = word
            /\ outcome' = [outcome EXCEPT ![row_number + 1] = "Blank"]
            /\ pc' = "loop"
       ELSE /\ word' = RowWord(row)
            /\ IF word' = <<>>
               THEN /\ outcome' = [outcome EXCEPT ![row_number + 1] = "Blank"]
                    /\ pc' = "loop"
               ELSE /\ outcome' = outcome
                    /\ pc' = "check"
    /\ last_resp' = NoResp
    /\ UNCHANGED <<rows, dry_run, retries, backoff, attempt, last_exc, excs,
                   parsed, gemini, fields, result, raised, log, text, ext>>
    /\ UNCHANGED <<record, store>>

(* lines 174-180: note_exists, then skip or enter query_gemini_for_word *)
NoteExistsFrom(R) ==
    /\ pc = "check"
    /\ \E resp \in R :
        /\ last_resp' = resp
        /\ log' = Append(log, Entry("findNotes", row_number, word,
                                    IF note_exists(resp) THEN 1 ELSE 0))
        /\ outcome' = IF note_exists(resp)
                      THEN [outcome EXCEPT ![row_number] = "Skipped"]
                      ELSE outcome
        /\ pc' = AfterExists(note_exists(resp))
    /\ retries' = DEFAULT_RETRIES
    /\ backoff' = DEFAULT_BACKOFF
    /\ attempt' = 0
    /\ last_exc' = "None"
    /\ excs' = <<>>
    /\ UNCHANGED <<rows, dry_run, row_number, word, parsed, gemini, fields,
                   result, raised, text, ext>>
    /\ UNCHANGED <<record, store>>

(* the collection may answer anything *)
NoteExists == NoteExistsFrom(FindResponses)

(* the collection answers from the notes it holds *)
NoteExistsFaithful == NoteExistsFrom(FaithfulFind(word, store))

(* another writer of the collection adds a note for a word *)
ExternalAdd ==
    /\ pc # "done"
    /\ \E w \in Words \ store : store' = store \cup {w}
    /\ UNCHANGED <<pc, rows, dry_run, row_number, word, retries, backoff,
                   attempt, last_exc, excs, parsed, gemini, fields, result,
                   last_resp, raised, log, outcome, text, ext, record>>

(* lines 124-138: the attempt returns the record, or fails and sleeps *)
AttemptStep(o) ==
    IF o.ok THEN
        /\ log' = Append(log, Entry("generate", row_number, word, 1))
        /\ parsed' = o.parsed
        /\ gemini' = o.rec
        /\ pc' = "gen_ok"
        /\ UNCHANGED <<last_exc, excs>>
    ELSE
        /\ log' = log \o <<Entry("generate", row_number, word, 0),
                           Entry("backoff_sleep", row_number, word,
                                 Wait(backoff, attempt'))>>
        /\ last_exc' = NextLastExc(last_exc, o.exc)
        /\ excs' = Append(excs, o.exc)
        /\ parsed' = IF o.exc = "AttributeError:get" THEN o.parsed
                     ELSE parsed
        /\ pc' = "gen"
        /\ UNCHANGED gemini

(* lines 117-138: one turn of the retry loop *)
GeminiAttempt ==
    /\ pc = "gen"
    /\ LoopCond(attempt, retries)
    /\ attempt' = attempt + 1
    /\ \E resp \in GeminiResponses : AttemptStep(AttemptOutcome(resp))
    /\ last_resp' = NoResp
    /\ UNCHANGED <<rows, dry_run, row_number, word, retries, backoff, fields,
                   result, raised, outcome, text, ext>>
    /\ UNCHANGED <<record, store>>

(* line 141: the loop ended without a return *)
GeminiExhausted ==
    /\ pc = "gen"
    /\ ~LoopCond(attempt, retries)
    /\ raised' = [type |-> "RuntimeError", attempts |-> retries + 1,
                  last |-> last_exc]
    /\ pc' = "gen_raised"
    /\ last_resp' = NoResp
    /\ UNCHANGED <<rows, dry_run, row_number, word, retries, backoff, attempt,
                   last_exc, excs, parsed, gemini, fields, result, log,
                   outcome, text, ext>>
    /\ UNCHANGED <<record, store>>

(* lines 180-194: the record came back, the locals of the query are gone;  *)
(* build the fields, then preview or not                                   *)
BuildFields ==
    /\ pc = "gen_ok"
    /\ fields' = BuildNoteFields(word, gemini)
    /\ IF ShouldAdd(dry_run)
       THEN /\ pc' = "add"
            /\ outcome' = outcome
       ELSE /\ pc' = "sleep"
            /\ outcome' = [outcome EXCEPT ![row_number] = "Previewed"]
    /\ attempt' = 0
    /\ last_exc' = "None"
    /\ excs' = <<>>
    /\ last_resp' = NoResp
    /\ UNCHANGED <<rows, dry_run, row_number, word, retries, backoff, parsed,
                   gemini, result, raised, log, text, ext>>
    /\ UNCHANGED <<record, store>>

(* lines 195-198: add_anki_note, its exception caught by the except clause *)
AddNote ==
    /\ pc = "add"
    /\ \E resp \in AddResponses :
        /\ last_resp' = resp
        /\ log' = Append(log, Entry("addNote", row_number, word,
                                    IF add_anki_note(resp).ok THEN 1 ELSE 0))
        /\ IF add_anki_note(resp).ok
           THEN /\ result' = add_anki_note(resp).result
                /\ store' = store \cup {word}
                /\ outcome' = [outcome EXCEPT ![row_number] = "Added"]
                /\ pc' = "sleep"
           ELSE /\ result' = result
                /\ store' = store
                /\ outcome' = [outcome EXCEPT ![row_number] = "Failed"]
                /\ pc' = OnFailure
    /\ UNCHANGED <<rows, dry_run, row_number, word, retries, backoff, attempt,
                   last_exc, excs, parsed, gemini, fields, raised, text, ext>>
    /\ UNCHANGED record

(* lines 197-198: the RuntimeError of query_gemini_for_word is caught; the *)
(* locals of the query are gone                                            *)
CatchFailure ==
    /\ pc = "gen_raised"
    /\ outcome' = [outcome EXCEPT ![row_number] = "Failed"]
    /\ raised' = NoExc
    /\ pc' = OnFailure
    /\ attempt' = 0
    /\ last_exc' = "None"
    /\ excs' = <<>>
    /\ last_resp' = NoResp
    /\ UNCHANGED <<rows, dry_run, row_number, word, retries, backoff, parsed,
                   gemini, fields, result, log, text, ext>>
    /\ UNCHANGED <<record, store>>

(* line 199; the locals of this turn of the loop are dead from here on *)
PoliteSleep ==
    /\ pc = "sleep"
    /\ log' = Append(log, Entry("polite_sleep", row_number, word,
                                POLITE_PAUSE))
    /\ pc' = "loop"
    /\ parsed' = JNull
    /\ gemini' = EmptyRecord
    /\ fields' = NoFields
    /\ result' = <<>>
    /\ last_resp' = NoResp
    /\ UNCHANGED <<rows, dry_run, row_number, word, retries, backoff, attempt,
                   last_exc, excs, raised, outcome, text, ext>>
    /\ UNCHANGED <<record, store>>

(* line 165: the reader is exhausted *)
Finish ==
    /\ pc = "loop"
    /\ row_number = Len(rows)
    /\ pc' = "done"
    /\ last_resp' = NoResp
    /\ UNCHANGED <<rows, dry_run, row_number, word, retries, backoff, attempt,
                   last_exc, excs, parsed, gemini, fields, result, raised,
                   log, outcome, text, ext>>
    /\ UNCHANGED <<record, store>>

(* lines 58-96 *)
Extract ==
    /\ pc = "extract"
    /\ ext' = find_json_in_text(text)
    /\ pc' = "extracted"
    /\ UNCHANGED <<rows, dry_run, row_number, word, retries, backoff, attempt,
                   last_exc, excs, parsed, gemini, fields, result, last_resp,
                   raised, log, outcome, text>>
    /\ UNCHANGED <<record, store>>

(* json.dumps of the record, with or without blanks around it *)
Serialize ==
    /\ pc = "serialize"
    /\ \E l \in 0..MaxPad : \E r \in 0..MaxPad :
            text' = Blanks(l) \o dumps(record) \o Blanks(r)
    /\ pc' = "extract"
    /\ UNCHANGED <<rows, dry_run, row_number, word, retries, backoff, attempt,
                   last_exc, excs, parsed, gemini, fields, result, last_resp,
                   raised, log, outcome, ext, record, store>>

Next ==
    \/ ReadRow
    \/ NoteExists
    \/ GeminiAttempt
    \/ GeminiExhausted
    \/ BuildFields
    \/ AddNote
    \/ CatchFailure
    \/ PoliteSleep
    \/ Finish

NextQuery ==
    \/ GeminiAttempt
    \/ GeminiExhausted

NextExtract == Extract

Spec == Init /\ [][Next]_vars

SpecQuery == InitQuery /\ [][NextQuery]_vars

SpecExtract == InitExtract /\ [][NextExtract]_vars

NextStore ==
    \/ ReadRow
    \/ NoteExistsFaithful
    \/ GeminiAttempt
    \/ GeminiExhausted
    \/ BuildFields
    \/ AddNote
    \/ CatchFailure
    \/ PoliteSleep
    \/ Finish

SpecStore == InitStore /\ [][NextStore]_vars

NextRace ==
    \/ ReadRow
    \/ NoteExistsFaithful
    \/ GeminiAttempt
    \/ GeminiExhausted
    \/ BuildFields
    \/ AddNote
    \/ CatchFailure
    \/ PoliteSleep
    \/ Finish
    \/ ExternalAdd

SpecRace == InitStore /\ [][NextRace]_vars

NextRound ==
    \/ Serialize
    \/ Extract

SpecRound == InitRound /\ [][NextRound]_vars

----------------------------------------------------------------------------
(* Reading the history *)

Last(q) == q[Len(q)]

Sel(op, r) == SelectSeq(log, LAMBDA e : e.op = op /\ e.row = r)

Count(op, r) == Len(Sel(op, r))

Ops(op) == SelectSeq(log, LAMBDA e : e.op = op)

NonBlank(r) == rows[r] # <<>> /\ Strip(rows[r][1]) # <<>>

RECURSIVE ExpectedWords(_)
ExpectedWords(n) ==
    IF n = 0 THEN <<>>
    ELSE IF NonBlank(n) THEN Append(ExpectedWords(n - 1), Strip(rows[n][1]))
    ELSE ExpectedWords(n - 1)

WordsOf(q) == [i \in 1..Len(q) |-> q[i].word]

Units == {LB, RB, LSQ, RSQ, QUOTE, COLON, COMMA, SP, DIGIT, NULLWORD,
          BACKSLASH,
          "hi", "oi"} \cup KEYS

----------------------------------------------------------------------------
(* C1: when every attempt fails, query_gemini_for_word makes exactly       *)
(* retries + 1 backend calls, raises the RuntimeError that carries the     *)
(* failure of the last attempt, and its backoff sleeps never decrease.     *)
C1_RetryExhaustion ==
    pc = "gen_raised" =>
        LET calls == Sel("generate", row_number)
            sleeps == Sel("backoff_sleep", row_number)
        IN  /\ Len(calls) = retries + 1
            /\ \A i \in 1..Len(calls) : calls[i].arg = 0
            /\ Len(excs) = retries + 1
            /\ raised.type = "RuntimeError"
            /\ raised.attempts = retries + 1
            /\ raised.last = Last(excs)
            /\ \A i \in 1..(Len(sleeps) - 1) : sleeps[i].arg <= sleeps[i + 1].arg

C1_Witness ==
    /\ pc = "gen_raised"
    /\ retries = DEFAULT_RETRIES
    /\ backoff = DEFAULT_BACKOFF
    /\ excs[1] = "ValueError"
    /\ excs[3] = "APIError"

(* C2: a row whose note_exists returned true gets no generation call and   *)
(* no addNote call, in either run mode.                                    *)
C2_DuplicateSkip ==
    \A i \in 1..Len(log) :
        (log[i].op = "findNotes" /\ log[i].arg = 1) =>
            /\ Count("generate", log[i].row) = 0
            /\ Count("addNote", log[i].row) = 0

C2_Witness ==
    /\ pc = "done"
    /\ Len(rows) = 2
    /\ outcome[1] = "Skipped"
    /\ outcome[2] = "Added"

(* C3: in a dry run no addNote call is ever made, every non-blank row      *)
(* still gets its existence check, and every non-blank row whose check     *)
(* returned false still gets a generation attempt.                         *)
C3_Preview ==
    dry_run =>
        /\ Ops("addNote") = <<>>
        /\ pc = "done" =>
            \A r \in 1..Len(rows) :
                NonBlank(r) =>
                    /\ Count("findNotes", r) = 1
                    /\ Sel("findNotes", r)[1].arg = 0
                         => Count("generate", r) >= 1

C3_Witness ==
    /\ dry_run
    /\ pc = "done"
    /\ Len(rows) = 2
    /\ outcome[1] = "Previewed"
    /\ outcome[2] = "Failed"

(* C4: dry run off, every existence check false, every generation call     *)
(* successful: the addNote calls are the trimmed non-empty first-column    *)
(* words in row order, one per such row, and empty or blank rows cause no  *)
(* call of any kind.                                                       *)
C4_EndToEnd ==
    (/\ pc = "done"
     /\ ~dry_run
     /\ \A i \in 1..Len(log) :
            /\ log[i].op = "findNotes" => log[i].arg = 0
            /\ log[i].op = "generate" => log[i].arg = 1)
    =>
        /\ WordsOf(Ops("addNote")) = ExpectedWords(Len(rows))
        /\ \A r \in 1..Len(rows) :
              Count("addNote", r) = IF NonBlank(r) THEN 1 ELSE 0
        /\ \A i \in 1..Len(log) : NonBlank(log[i].row)

C4_Witness ==
    /\ pc = "done"
    /\ ~dry_run
    /\ rows = << << <<SP, "buoyant", SP>>, <<"note">> >>, << <<SP, SP>> >> >>
    /\ WordsOf(Ops("addNote")) = << <<"buoyant">> >>
    /\ \A i \in 1..Len(log) : log[i].op = "generate" => log[i].arg = 1

(* C5: no failure aborts the batch: the run is never stuck before the end  *)
(* of the input, it ends only at the end of the input, and every non-blank *)
(* row has had its existence check by then.                                *)
C5_NoAbort ==
    /\ pc # "done" => ENABLED Next
    /\ pc = "done" =>
        /\ row_number = Len(rows)
        /\ \A r \in 1..Len(rows) : NonBlank(r) => Count("findNotes", r) = 1

C5_Witness ==
    /\ pc = "done"
    /\ Len(rows) = 2
    /\ outcome[1] = "Failed"
    /\ Count("addNote", 1) = 0
    /\ Count("findNotes", 2) = 1

(* C6 as stated: exactly one polite pause after every non-blank word,      *)
(* whatever its outcome, a Skipped word included.                          *)
C6_Original ==
    pc = "done" =>
        \A r \in 1..Len(rows) : NonBlank(r) => Count("polite_sleep", r) = 1

(* C6 amended: exactly one polite pause of the fixed interval, as the last *)
(* step of the row, after every non-blank word whose existence check       *)
(* returned false (Added, Failed or previewed); none after a Skipped word  *)
(* and none for a blank row.                                               *)
C6_PauseUnlessSkipped ==
    pc = "done" =>
        \A r \in 1..Len(rows) :
            LET pauses == Sel("polite_sleep", r)
                mine == SelectSeq(log, LAMBDA e : e.row = r)
            IN  IF NonBlank(r) /\ outcome[r] # "Skipped"
                THEN /\ outcome[r] \in {"Added", "Failed", "Previewed"}
                     /\ Len(pauses) = 1
                     /\ pauses[1].arg = POLITE_PAUSE
                     /\ Last(mine).op = "polite_sleep"
                ELSE pauses = <<>>

C6_Witness ==
    /\ pc = "done"
    /\ Len(rows) = 2
    /\ outcome[1] = "Skipped"
    /\ outcome[2] = "Failed"
    /\ Count("polite_sleep", 2) = 1

(* C7: the record query_gemini_for_word returns has exactly the five keys  *)
(* and only text values: "" for a missing key, the stripped text for a     *)
(* text, the JSON text for anything else; an attempt whose response holds  *)
(* an object never fails, and outside a dry run the note is then sent.     *)
C7_RecordShape ==
    /\ pc = "gen_ok" =>
        /\ DOMAIN gemini = KEYS
        /\ \A k \in KEYS :
            /\ gemini[k] \in Seq(Units)
            /\ ~HasKey(parsed, <<k>>) => gemini[k] = <<>>
            /\ HasKey(parsed, <<k>>) =>
                LET v == DictGet(parsed, <<k>>) IN
                IF v.kind = "str"
                THEN /\ gemini[k] = Strip(v.txt)
                     /\ gemini[k] # <<>> =>
                            Head(gemini[k]) # SP /\ Last(gemini[k]) # SP
                ELSE /\ gemini[k] = dumps(v)
                     /\ gemini[k] # <<>>
    /\ (pc = "gen" /\ last_exc = "AttributeError:get") => parsed.kind # "obj"
    /\ (pc \in {"sleep", "done"} /\ ~dry_run /\ row_number > 0
        /\ Count("generate", row_number) > 0
        /\ Last(Sel("generate", row_number)).arg = 1)
       => Count("addNote", row_number) = 1

C7_Witness ==
    /\ pc = "sleep"
    /\ Last(log).op = "addNote"
    /\ ~HasKey(parsed, <<"phrase_translation">>)
    /\ fields["phrase translation"] = <<>>
    /\ fields["translation"] = <<DIGIT>>
    /\ fields["Meaning"] = <<"hi">>
    /\ fields["example phrase"] = <<NULLWORD>>

(* C8: note_exists returns true iff the service answered with at least one *)
(* note id, and false on a transport failure, an HTTP error status, an     *)
(* undecodable body or an error answer; after a false the word goes on to  *)
(* generation, it is never skipped.                                        *)
C8_ExistenceAdvisory ==
    /\ (log # <<>> /\ Last(log).op = "findNotes" /\ last_resp.kind # "none")
       =>
        LET ret == Last(log).arg = 1 IN
        /\ ret <=> /\ last_resp.kind = "json"
                   /\ last_resp.error = "null"
                   /\ last_resp.rkind = "list"
                   /\ Len(last_resp.ids) >= 1
        /\ (last_resp.kind # "json" \/ last_resp.error # "null") => ~ret
        /\ ~ret => pc = "gen" /\ attempt = 0 /\ outcome[row_number] = "none"
        /\ ret => pc = "loop" /\ outcome[row_number] = "Skipped"
    /\ pc = "done" =>
        \A i \in 1..Len(log) :
            (log[i].op = "findNotes" /\ log[i].arg = 0)
                => Count("generate", log[i].row) >= 1

C8_Witness ==
    /\ log # <<>>
    /\ Last(log).op = "findNotes"
    /\ last_resp.kind = "json"
    /\ last_resp.error = "err"
    /\ pc = "gen"

(* C9: add_anki_note fails on a transport failure, an HTTP error status,   *)
(* an undecodable body or a non-null error field and otherwise returns the *)
(* result of the service; a failed addNote leaves the word Failed, never   *)
(* Added, and the batch goes on.                                           *)
C9_AddNote ==
    /\ (log # <<>> /\ Last(log).op = "addNote" /\ last_resp.kind # "none")
       =>
        LET fail == \/ last_resp.kind \in {"transport", "http_error",
                                           "undecodable"}
                    \/ last_resp.error # "null"
        IN  /\ pc = "sleep"
            /\ fail => /\ Last(log).arg = 0
                       /\ outcome[row_number] = "Failed"
                       /\ result = <<>>
            /\ ~fail => /\ Last(log).arg = 1
                        /\ outcome[row_number] = "Added"
                        /\ result = IF last_resp.rkind = "id"
                                    THEN last_resp.ids ELSE <<>>
    /\ pc = "done" =>
        /\ row_number = Len(rows)
        /\ \A r \in 1..Len(rows) :
            outcome[r] = "Added" <=>
                (Count("addNote", r) = 1 /\ Sel("addNote", r)[1].arg = 1)

C9_Witness ==
    /\ pc = "done"
    /\ Len(rows) = 2
    /\ outcome[1] = "Failed"
    /\ Count("addNote", 1) = 1
    /\ outcome[2] = "Added"

(* C10 as stated: find_json_in_text returns nothing but objects, and it    *)
(* fails on every text without a balanced brace span; a text without any   *)
(* brace is such a text.                                                   *)
C10_ObjectOrError ==
    pc = "extracted" =>
        /\ ext.ok => ext.val.kind = "obj"
        /\ (\A i \in 1..Len(text) : text[i] # LB /\ text[i] # RB) => ~ext.ok

Commentary(q) == \A n \in 1..Len(q) : q[n] = "hi" \/ q[n] = SP

(* C11 as stated: commentary of letters and blanks around one well-formed  *)
(* object: find_json_in_text returns the parsed content of that object,    *)
(* whatever its text values contain, braces included.                      *)
C11_Tolerance ==
    pc = "extracted" =>
        \A i \in 1..Len(text) : \A j \in i..Len(text) :
            (/\ text[i] = LB
             /\ text[j] = RB
             /\ Commentary(SubSeq(text, 1, i - 1))
             /\ Commentary(SubSeq(text, j + 1, Len(text)))
             /\ loads(SubSeq(text, i, j)).ok)
            => /\ ext.ok
               /\ ext.val = loads(SubSeq(text, i, j)).val

(* C12: a record of the five required text fields, serialized and passed   *)
(* through find_json_in_text with or without blanks around it, comes back  *)
(* equal to the original: the same keys, the same values.                  *)
C12_RoundTrip ==
    pc = "extracted" =>
        /\ ext.ok
        /\ ext.val.kind = "obj"
        /\ ext.val.keys = record.keys
        /\ ext.val.vals = record.vals

C12_Witness ==
    /\ pc = "extracted"
    /\ Head(text) = SP
    /\ record.vals[1].txt = <<RB>>
    /\ record.vals[2].txt = <<QUOTE, BACKSLASH>>
    /\ record.vals[3].txt = <<SP, "hi", SP>>
    /\ ext.val.vals[2].txt = <<QUOTE, BACKSLASH>>

(* C13 as stated: a call in which every attempt fails sleeps exactly        *)
(* `retries` times, and its last step before raising is the failed attempt, *)
(* not a sleep.                                                             *)
C13_SleepsBetweenAttempts ==
    pc = "gen_raised" =>
        /\ Count("backoff_sleep", row_number) = retries
        /\ Last(log).op = "generate"

Phase(op) ==
    CASE op = "findNotes" -> 1
      [] op = "generate" -> 2
      [] op = "backoff_sleep" -> 2
      [] op = "addNote" -> 3
      [] op = "polite_sleep" -> 4

(* C14: the calls of one row come in the order existence check, generation  *)
(* attempts, at most one insertion; the history never goes back to an       *)
(* earlier row, and every row before one that has a call has its outcome.   *)
C14_Sequential ==
    /\ \A i \in 1..Len(log) : \A j \in i..Len(log) :
        /\ log[i].row <= log[j].row
        /\ log[i].row = log[j].row => Phase(log[i].op) <= Phase(log[j].op)
    /\ \A i \in 1..Len(log) :
        /\ log[i].row \in 1..row_number
        /\ log[i].op # "findNotes" => Count("findNotes", log[i].row) = 1
        /\ log[i].op = "addNote" =>
                /\ Count("generate", log[i].row) >= 1
                /\ Last(Sel("generate", log[i].row)).arg = 1
        /\ \A r \in 1..(log[i].row - 1) : outcome[r] # "none"
    /\ \A r \in 1..Len(rows) :
        /\ Count("findNotes", r) <= 1
        /\ Count("addNote", r) <= 1

C14_Witness ==
    /\ pc = "done"
    /\ Count("findNotes", 1) = 1
    /\ Count("generate", 1) = 2
    /\ Count("addNote", 1) = 1
    /\ Count("generate", 2) = 1
    /\ Count("addNote", 2) = 1
    /\ outcome = <<"Added", "Failed">>

RowOver(r) == r < row_number \/ (r = row_number /\ pc \in {"loop", "done"})

AllFailed(r) ==
    /\ Count("generate", r) = DEFAULT_RETRIES + 1
    /\ \A i \in 1..Count("generate", r) : Sel("generate", r)[i].arg = 0

(* C15: an addNote call belongs to a non-blank row whose existence check    *)
(* said false and whose generation succeeded, in a run without the preview  *)
(* flag; a row has at most one addNote call, a failed one leaves the row    *)
(* Failed, and a row whose attempts all failed is Failed with no addNote.   *)
C15_AddOnlyWhen ==
    /\ \A i \in 1..Len(log) :
        log[i].op = "addNote" =>
            /\ ~dry_run
            /\ NonBlank(log[i].row)
            /\ log[i].word = Strip(rows[log[i].row][1])
            /\ Count("findNotes", log[i].row) = 1
            /\ Sel("findNotes", log[i].row)[1].arg = 0
            /\ Count("generate", log[i].row) >= 1
            /\ Last(Sel("generate", log[i].row)).arg = 1
            /\ Count("addNote", log[i].row) = 1
            /\ log[i].arg = 0 => outcome[log[i].row] = "Failed"
            /\ log[i].arg = 1 => outcome[log[i].row] = "Added"
    /\ \A r \in 1..Len(rows) :
        AllFailed(r) =>
            /\ Count("addNote", r) = 0
            /\ RowOver(r) => outcome[r] = "Failed"

C15_Witness ==
    /\ pc = "done"
    /\ Len(rows) = 2
    /\ Count("addNote", 1) = 1
    /\ Sel("addNote", 1)[1].arg = 0
    /\ AllFailed(2)
    /\ outcome = <<"Failed", "Failed">>

(* the brace depth after each unit of t, as lines 70-78 count it *)
RECURSIVE DepthSeq(_, _, _)
DepthSeq(t, i, d) ==
    IF i > Len(t) THEN <<>>
    ELSE LET d2 == IF t[i] = LB THEN d + 1
                   ELSE IF t[i] = RB /\ d > 0 THEN d - 1
                   ELSE d
         IN  <<d2>> \o DepthSeq(t, i + 1, d2)

(* the top-level balanced spans of t: from a brace that opens depth 1 to   *)
(* the next brace that brings the depth back to 0                          *)
SpanEnds(t, D, i) == {j \in i..Len(t) : D[j] = 0}

Min(S) == CHOOSE x \in S : \A y \in S : x <= y

TopSpansOf(t, D) ==
    {<<i, Min(SpanEnds(t, D, i))>> :
        i \in {n \in 1..Len(t) : /\ t[n] = LB
                                 /\ (n = 1 \/ D[n - 1] = 0)
                                 /\ SpanEnds(t, D, n) # {}}}

TopSpans(t) == TopSpansOf(t, DepthSeq(t, 1, 0))

ParsingSpans(t) == {sp \in TopSpans(t) : loads(SubSeq(t, sp[1], sp[2])).ok}

Leftmost(S) == CHOOSE sp \in S : \A o \in S : sp[1] <= o[1]

ScanResult(t, P, e) ==
    /\ P # {} =>
        /\ e.ok
        /\ e.tier = 2
        /\ e.val = loads(SubSeq(t, Leftmost(P)[1], Leftmost(P)[2])).val
    /\ P = {} => e.tier # 2
    /\ e.tier = 3 => Fallback(t, 1) = e

(* C16: when the whole text does not load, the result is the value of the   *)
(* leftmost top-level balanced span that loads, if there is one, and the    *)
(* pattern fallback gives the result only when no such span loads.          *)
C16_LeftmostSpan ==
    (pc = "extracted" /\ ~loads(Strip(text)).ok) =>
        ScanResult(Strip(text), ParsingSpans(Strip(text)), ext)

C16_Witness ==
    /\ pc = "extracted"
    /\ ~loads(Strip(text)).ok
    /\ Cardinality(TopSpans(Strip(text))) = 2
    /\ Cardinality(ParsingSpans(Strip(text))) = 1
    /\ Leftmost(ParsingSpans(Strip(text)))[1] > 1
    /\ ext.tier = 2

(* C17: a call whose first success is attempt k made k backend calls, the   *)
(* first k-1 failed and each was followed by a sleep of backoff times its   *)
(* number; the record is the one built from the k-th response, and nothing  *)
(* follows the success: no call, no sleep.                                  *)
C17_FirstSuccess ==
    pc = "gen_ok" =>
        /\ attempt \in 1..(retries + 1)
        /\ Count("generate", row_number) = attempt
        /\ \A i \in 1..(attempt - 1) : Sel("generate", row_number)[i].arg = 0
        /\ Sel("generate", row_number)[attempt].arg = 1
        /\ Count("backoff_sleep", row_number) = attempt - 1
        /\ \A i \in 1..(attempt - 1) :
                Sel("backoff_sleep", row_number)[i].arg = backoff * i
        /\ Last(log).op = "generate"
        /\ parsed.kind = "obj"
        /\ gemini = Normalize(parsed)
        /\ ~ENABLED NextQuery

C17_Witness ==
    /\ pc = "gen_ok"
    /\ attempt = 3
    /\ backoff = 2
    /\ Len(log) = 5
    /\ log[4].op = "backoff_sleep"
    /\ log[4].arg = 4
    /\ gemini["meaning"] = <<"hi">>

(* C18: an attempt whose extracted value is not an object fails like any    *)
(* other: it is followed by the sleep of its number and the loop goes on;   *)
(* a record comes only from an object, and the only error that leaves the   *)
(* call is the RuntimeError after retries + 1 attempts.                     *)
C18_NonObjectFails ==
    /\ (pc = "gen" /\ excs # <<>> /\ Last(excs) = "AttributeError:get") =>
        /\ parsed.kind # "obj"
        /\ Len(log) >= 2
        /\ log[Len(log) - 1].op = "generate"
        /\ log[Len(log) - 1].arg = 0
        /\ Last(log).op = "backoff_sleep"
        /\ Last(log).arg = backoff * attempt
        /\ raised = NoExc
        /\ attempt <= retries => ENABLED GeminiAttempt
    /\ Len(excs) = Count("backoff_sleep", row_number)
    /\ pc = "gen_ok" => parsed.kind = "obj"
    /\ pc = "gen_raised" =>
        /\ raised.type = "RuntimeError"
        /\ attempt = retries + 1
        /\ Len(excs) = retries + 1
    /\ pc \in {"gen", "gen_ok"} => raised = NoExc

C18_Witness ==
    /\ pc = "gen_ok"
    /\ excs = <<"AttributeError:get", "AttributeError:get">>
    /\ attempt = 3

TrimmedWord(r) == IF NonBlank(r) THEN Strip(rows[r][1]) ELSE <<>>

(* C19: with a collection that answers the existence check from its notes   *)
(* and has no other writer, once a word has been added every later row with *)
(* the same trimmed word has no generation and no addNote call and ends     *)
(* Skipped; no word is added twice.                                         *)
C19_InsertedOnce ==
    /\ \A i \in 1..Len(log) :
        (log[i].op = "addNote" /\ log[i].arg = 1) =>
            \A r \in (log[i].row + 1)..row_number :
                (NonBlank(r) /\ TrimmedWord(r) = log[i].word) =>
                    /\ Count("generate", r) = 0
                    /\ Count("addNote", r) = 0
                    /\ Count("findNotes", r) = 1 =>
                            /\ Sel("findNotes", r)[1].arg = 1
                            /\ outcome[r] = "Skipped"
                    /\ RowOver(r) => outcome[r] = "Skipped"
    /\ \A i \in 1..Len(log) : \A j \in (i + 1)..Len(log) :
        (/\ log[i].op = "addNote" /\ log[i].arg = 1
         /\ log[j].op = "addNote" /\ log[j].arg = 1)
        => log[i].word # log[j].word
    /\ pc = "add" => word \notin store

C19_Witness ==
    /\ pc = "done"
    /\ Len(rows) = 2
    /\ TrimmedWord(1) = TrimmedWord(2)
    /\ outcome = <<"Added", "Skipped">>
    /\ Ops("addNote") = <<Entry("addNote", 1, TrimmedWord(1), 1)>>

AddedByTool(w) ==
    \E i \in 1..Len(log) :
        log[i].op = "addNote" /\ log[i].arg = 1 /\ log[i].word = w

(* C20: with another writer of the collection the tool reaches its addNote  *)
(* call for a word that already has a note; the tool's own check said the   *)
(* word had none, and the note is never one the tool added itself.          *)
C20_RaceWindow ==
    (pc = "add" /\ word \in store) =>
        /\ Count("findNotes", row_number) = 1
        /\ Sel("findNotes", row_number)[1].arg = 0
        /\ ~AddedByTool(word)
        /\ ENABLED AddNote

C20_Witness ==
    /\ Len(log) > 0
    /\ Last(log).op = "addNote"
    /\ Last(log).arg = 0
    /\ Last(log).word \in store
    /\ ~AddedByTool(Last(log).word)
    /\ Sel("findNotes", Last(log).row)[1].arg = 0

====
